---- MODULE Spec2Model ----
(***************************************************************************)
(* SIS epidemic simulation of CSN_lab7: src/main.py ("main") and           *)
(* src/main_task1.py ("task1").  The two files define the same functions   *)
(* with different bodies; the variable `variant` says which file runs.     *)
(*                                                                         *)
(* Probabilities (p0, beta, gamma) are the rationals k/Grain, k an         *)
(* integer; a value returned by random.random() is r/Grain with            *)
(* r \in 0..Grain-1, i.e. a point of [0, 1).  Only the numerators are      *)
(* stored, so `r < gamma` below is the comparison of the two rationals.    *)
(* Other rationals (infected fraction, max_eigen) are pairs <<num, den>>   *)
(* with den > 0.                                                           *)
(***************************************************************************)
EXTENDS Integers, Sequences, FiniteSets, TLC

VARIABLES
    variant,             \* "main" (src/main.py) or "task1" (src/main_task1.py)
    G_type,              \* graph_type of main()
    G,                   \* the graph: [nodes : Seq(node), adj : node -> Seq(node)]
    p0, beta, gamma, T,  \* parameters set by main()
    pc,                  \* position of the program
    infected_nodes,      \* main(): result of set_initial_infected
    sim_infected_nodes,  \* simulate_spread(): its local infected_nodes
    new_infected_nodes,  \* update_status(): list being built
    i,                   \* index of `node` in G.nodes() (1-based)
    j,                   \* index of `neighbor` in G.neighbors(node); 0: not in the inner loop
    t,                   \* number of completed iterations of range(T)
    proportion_infected, \* simulate_spread(): the trajectory
    max_eigen,           \* simulate_spread(): max(eigen_centrality.values())
    verdict,             \* what check_threshold printed (or the exception it raised)
    recovered,           \* history: nodes whose recovery trial succeeded in this call
    transmitted,         \* history: <<from, to>> of the successful transmission trials of this call
    spontaneous,         \* history: nodes whose own line-69 trial succeeded in this call
    graph_index,         \* main(): position of graph_type in graph_types (0: no batch loop)
    run,                 \* main(): which call is running ("above", "below", "preliminary", "only")
    eigen_centrality,    \* simulate_spread(): node -> square of its centrality score
    leading_node,        \* simulate_spread(): max(eigen_centrality, key=eigen_centrality.get)
    max_eigen_above,     \* main(): max_eigen returned by the first simulate_spread call
    leading_node_above,  \* main(): leading_node returned by the first simulate_spread call
    exception,           \* the exception that ended main(), or "none"
    checked,             \* history: the runs of this topology given to check_threshold
    reported             \* history: the graph types whose results were printed

vars == <<variant, G_type, G, p0, beta, gamma, T, pc, infected_nodes,
          sim_infected_nodes, new_infected_nodes, i, j, t, proportion_infected,
          max_eigen, verdict, recovered, transmitted, spontaneous,
          graph_index, run, eigen_centrality, leading_node, max_eigen_above,
          leading_node_above, exception, checked, reported>>

\* the state of main() around the calls of simulate_spread
MainVars == <<graph_index, run, eigen_centrality, leading_node, max_eigen_above,
              leading_node_above, exception, checked, reported>>

(***************************************************************************)
(* Bounds of the model.                                                    *)
(***************************************************************************)
NumNodes == 2   \* n of main(): number of vertices asked of the graph builders
Grain == 3      \* probabilities are k/Grain, random draws r/Grain
MaxT == 2       \* largest T
MaxEigen == 2   \* max_eigen is a/b with a, b \in 1..MaxEigen

\* the values given to p0, beta and gamma: 0, 1/Grain and 1
Probabilities == {0, 1, Grain}

\* the values of random.random(): 0, 1/Grain, ..., (Grain-1)/Grain
Draws == 0..(Grain - 1)

(***************************************************************************)
(* Helpers on sequences and rationals.                                     *)
(***************************************************************************)
Range(s) == {s[k] : k \in 1..Len(s)}

In(x, s) == \E k \in 1..Len(s) : s[k] = x

\* ascending sequence of the integers of a finite set
RECURSIVE SortedSeq(_)
SortedSeq(S) ==
    IF S = {} THEN <<>>
    ELSE LET m == CHOOSE x \in S : \A y \in S : x <= y
         IN <<m>> \o SortedSeq(S \ {m})

RatDiv(x, y) == <<x[1] * y[2], x[2] * y[1]>>

RatGT(x, y) == x[1] * y[2] > y[1] * x[2]

RatOne == <<1, 1>>

(***************************************************************************)
(* The graph builders main() calls (networkx).  A graph is its node list   *)
(* in G.nodes() order and, per node, its neighbours in G.neighbors(node)   *)
(* order.                                                                  *)
(***************************************************************************)
graph_types == {"random", "complete", "star", "lattice"}

\* nx.complete_graph(n): nodes 0..n-1, every pair adjacent
complete_graph(n) ==
    [nodes |-> [k \in 1..n |-> k - 1],
     adj   |-> [v \in 0..(n - 1) |-> SortedSeq((0..(n - 1)) \ {v})]]

\* nx.star_graph(n): centre 0 and the n leaves 1..n
star_graph(n) ==
    [nodes |-> [k \in 1..(n + 1) |-> k - 1],
     adj   |-> [v \in 0..n |-> IF v = 0 THEN [k \in 1..n |-> k] ELSE <<0>>]]

\* int(math.sqrt(n)): the floor of the square root
IntSqrt(n) == CHOOSE s \in 0..n : s * s <= n /\ (s + 1) * (s + 1) > n

\* round(math.sqrt(n)): the nearest integer to the square root
RoundSqrt(n) ==
    CHOOSE s \in 0..n : (2 * s - 1) * (2 * s - 1) <= 4 * n /\ 4 * n < (2 * s + 1) * (2 * s + 1)

\* nx.grid_2d_graph(m, m); node (r, c) is written r * m + c, which keeps the
\* row-major order of G.nodes(); neighbours in the order the edges are added:
\* (r-1, c), (r+1, c), (r, c-1), (r, c+1)
grid_2d_graph(m) ==
    [nodes |-> [k \in 1..(m * m) |-> k - 1],
     adj   |-> [v \in 0..(m * m - 1) |->
                  LET r == v \div m
                      c == v % m
                  IN (IF r > 0 THEN <<v - m>> ELSE <<>>)
                     \o (IF r < m - 1 THEN <<v + m>> ELSE <<>>)
                     \o (IF c > 0 THEN <<v - 1>> ELSE <<>>)
                     \o (IF c < m - 1 THEN <<v + 1>> ELSE <<>>)]]

\* nx.fast_gnp_random_graph(n, 0.1): nodes 0..n-1 and any set of edges
Pairs(n) == {e \in (0..(n - 1)) \X (0..(n - 1)) : e[1] < e[2]}

gnp_random_graph(n, E) ==
    [nodes |-> [k \in 1..n |-> k - 1],
     adj   |-> [v \in 0..(n - 1) |->
                  SortedSeq({w \in 0..(n - 1) : <<v, w>> \in E \/ <<w, v>> \in E})]]

\* the lattice side of main(): int(...) in main.py, round(...) in main_task1.py
LatticeSide(v, n) == IF v = "main" THEN IntSqrt(n) ELSE RoundSqrt(n)

\* the graphs main() can build for a graph_type
BuildGraphs(v, gt, n) ==
    CASE gt = "random"   -> {gnp_random_graph(n, E) : E \in SUBSET Pairs(n)}
      [] gt = "complete" -> {complete_graph(n)}
      [] gt = "star"     -> {star_graph(n)}
      [] gt = "lattice"  -> {grid_2d_graph(LatticeSide(v, n))}

Nodes == Range(G.nodes)

Neighbors(node) == G.adj[node]

\* len(G)
GraphLen(g) == Len(g.nodes)

(***************************************************************************)
(* The tests the code makes on a random draw r.                            *)
(***************************************************************************)
\* mutant of InitiallyInfected: <= for <
InitiallyInfectedInclusive(r, p) == r <= p

\* set_initial_infected: random.random() < p0
InitiallyInfected(r, p) == r < p

\* mutant of Recovers: the comparison of main_task1.py 59 read as the recovery
RecoversInverted(v, r, g) == r > g

\* update_status, recovery of an infected node:
\*   main.py        if random.random() < gamma: continue
\*   main_task1.py  if random.random() > gamma: new_infected_nodes.append(node)
Recovers(v, r, g) == IF v = "main" THEN r < g ELSE ~(r > g)

\* update_status: random.random() < beta
Transmits(r, b) == r < b

\* update_status 57: node in infected_nodes
\* mutant of IsInfected: the test is made against the list being built
IsInfectedInBuiltList(x, infected) == In(x, new_infected_nodes)

IsInfected(x, infected) == In(x, infected)

\* main.py 64: neighbor not in infected_nodes (the neighbour can be infected)
HealthyNeighbor(x, infected) == ~In(x, infected)

\* mutant of InfectedNeighbor: the test of main.py 64 left in main_task1.py
InfectedNeighborNegated(x, infected) == ~In(x, infected)

\* main_task1.py 66: neighbor in infected_nodes (the neighbour can infect)
InfectedNeighbor(x, infected) == In(x, infected)

\* update_status: len(new_infected_nodes) / len(G)
Proportion(new, g) == <<Len(new), GraphLen(g)>>

\* mutant of LoopRuns: the loop is left once the infection has died out
LoopRunsWhileInfected(k, n) == k < n /\ (k = 0 \/ sim_infected_nodes # <<>>)

\* simulate_spread: for t in range(T)
LoopRuns(k, n) == k < n

(***************************************************************************)
(* Initial state: main() has set its parameters and built the graph.       *)
(***************************************************************************)
Init ==
    /\ variant \in {"main", "task1"}
    /\ G_type \in graph_types
    /\ G \in BuildGraphs(variant, G_type, NumNodes)
    /\ p0 \in Probabilities
    /\ beta \in Probabilities
    /\ gamma \in Probabilities
    /\ T \in 0..MaxT
    /\ pc = "set_initial_infected"
    /\ infected_nodes = <<>>
    /\ sim_infected_nodes = <<>>
    /\ new_infected_nodes = <<>>
    /\ i = 1
    /\ j = 0
    /\ t = 0
    /\ proportion_infected = <<>>
    /\ max_eigen = <<0, 1>>
    /\ verdict = "none"
    /\ recovered = {}
    /\ transmitted = {}
    /\ spontaneous = {}
    /\ graph_index = 0
    /\ run = "none"
    /\ eigen_centrality = <<>>
    /\ leading_node = -1
    /\ max_eigen_above = <<0, 1>>
    /\ leading_node_above = -1
    /\ exception = "none"
    /\ checked = {}
    /\ reported = <<>>

(***************************************************************************)
(* set_initial_infected(G, p0): one iteration of `for node in G.nodes()`   *)
(* per step; after the last node the list is returned to main().           *)
(***************************************************************************)
SetInitialInfected ==
    /\ pc = "set_initial_infected"
    /\ i <= Len(G.nodes)
    /\ \E r \in Draws :
          infected_nodes' = IF InitiallyInfected(r, p0)
                            THEN Append(infected_nodes, G.nodes[i])
                            ELSE infected_nodes
    /\ i' = i + 1
    /\ UNCHANGED <<variant, G_type, G, p0, beta, gamma, T, pc, sim_infected_nodes,
                   new_infected_nodes, j, t, proportion_infected, max_eigen, verdict,
                   recovered, transmitted, spontaneous>>
    /\ UNCHANGED MainVars

\* return infected_nodes; main() then calls simulate_spread with it
SetInitialInfectedReturn ==
    /\ pc = "set_initial_infected"
    /\ i > Len(G.nodes)
    /\ run # "preliminary"
    /\ pc' = "simulate_spread"
    /\ sim_infected_nodes' = infected_nodes
    /\ proportion_infected' = <<>>
    /\ t' = 0
    /\ UNCHANGED <<variant, G_type, G, p0, beta, gamma, T, infected_nodes,
                   new_infected_nodes, i, j, max_eigen, verdict,
                   recovered, transmitted, spontaneous>>
    /\ UNCHANGED MainVars

(***************************************************************************)
(* simulate_spread: the head of `for t in range(T)`; an iteration calls    *)
(* update_status(G, infected_nodes, beta, gamma).                          *)
(***************************************************************************)
SimulateSpreadStep ==
    /\ pc = "simulate_spread"
    /\ LoopRuns(t, T)
    /\ pc' = "update_status"
    /\ new_infected_nodes' = <<>>
    /\ i' = 1
    /\ j' = 0
    /\ recovered' = {}
    /\ transmitted' = {}
    /\ spontaneous' = {}
    /\ UNCHANGED <<variant, G_type, G, p0, beta, gamma, T, infected_nodes,
                   sim_infected_nodes, t, proportion_infected, max_eigen, verdict>>
    /\ UNCHANGED MainVars

(***************************************************************************)
(* update_status.  The position is (i, j): node = G.nodes()[i], and for    *)
(* j > 0 neighbor = G.neighbors(node)[j].  infected_nodes, the parameter,  *)
(* is sim_infected_nodes.                                                  *)
(***************************************************************************)
node == G.nodes[i]

neighbor == Neighbors(node)[j]

InLoop == pc = "update_status" /\ i <= Len(G.nodes)

\* the position after the inner loop has dealt with its k-th neighbour
\* (k = 0: the inner loop is entered)
AfterNeighbor(k) ==
    IF k < Len(Neighbors(node))
    THEN /\ i' = i
         /\ j' = k + 1
    ELSE /\ i' = i + 1
         /\ j' = 0

NextNode ==
    /\ i' = i + 1
    /\ j' = 0

Frame ==
    /\ UNCHANGED <<variant, G_type, G, p0, beta, gamma, T, pc, infected_nodes,
                   sim_infected_nodes, t, proportion_infected, max_eigen, verdict>>
    /\ UNCHANGED MainVars

\* main.py 57-61: the node is infected; it recovers (continue) or goes on to
\* its neighbours
MainRecovery ==
    /\ variant = "main"
    /\ InLoop /\ j = 0
    /\ IsInfected(node, sim_infected_nodes)
    /\ \E r \in Draws :
          IF Recovers(variant, r, gamma)
          THEN /\ recovered' = recovered \cup {node}
               /\ NextNode
          ELSE /\ recovered' = recovered
               /\ AfterNeighbor(0)
    /\ UNCHANGED <<new_infected_nodes, transmitted, spontaneous>>
    /\ Frame

\* main.py 62-65: a healthy neighbour is appended with probability beta
MainTransmission ==
    /\ variant = "main"
    /\ InLoop /\ j > 0
    /\ HealthyNeighbor(neighbor, sim_infected_nodes)
    /\ \E r \in Draws :
          IF Transmits(r, beta)
          THEN /\ new_infected_nodes' = Append(new_infected_nodes, neighbor)
               /\ transmitted' = transmitted \cup {<<node, neighbor>>}
          ELSE UNCHANGED <<new_infected_nodes, transmitted>>
    /\ AfterNeighbor(j)
    /\ UNCHANGED <<recovered, spontaneous>>
    /\ Frame

\* main.py 64: `neighbor not in infected_nodes` is false, no draw is made
MainNeighborInfected ==
    /\ variant = "main"
    /\ InLoop /\ j > 0
    /\ ~HealthyNeighbor(neighbor, sim_infected_nodes)
    /\ AfterNeighbor(j)
    /\ UNCHANGED <<new_infected_nodes, recovered, transmitted, spontaneous>>
    /\ Frame

\* mutant of MainSpontaneous: the position in G.nodes() is appended instead of
\* the node
MainSpontaneousAppendsIndex ==
    /\ variant = "main"
    /\ InLoop /\ j = 0
    /\ ~IsInfected(node, sim_infected_nodes)
    /\ \E r \in Draws :
          IF Transmits(r, beta)
          THEN /\ new_infected_nodes' = Append(new_infected_nodes, i)
               /\ spontaneous' = spontaneous \cup {node}
          ELSE UNCHANGED <<new_infected_nodes, spontaneous>>
    /\ NextNode
    /\ UNCHANGED <<recovered, transmitted>>
    /\ Frame

\* main.py 69-70: the node is not infected; it is appended with probability beta
MainSpontaneous ==
    /\ variant = "main"
    /\ InLoop /\ j = 0
    /\ ~IsInfected(node, sim_infected_nodes)
    /\ \E r \in Draws :
          IF Transmits(r, beta)
          THEN /\ new_infected_nodes' = Append(new_infected_nodes, node)
               /\ spontaneous' = spontaneous \cup {node}
          ELSE UNCHANGED <<new_infected_nodes, spontaneous>>
    /\ NextNode
    /\ UNCHANGED <<recovered, transmitted>>
    /\ Frame

\* main_task1.py 57-60: the node is infected; it is kept unless it recovers
Task1Recovery ==
    /\ variant = "task1"
    /\ InLoop /\ j = 0
    /\ IsInfected(node, sim_infected_nodes)
    /\ \E r \in Draws :
          IF Recovers(variant, r, gamma)
          THEN /\ recovered' = recovered \cup {node}
               /\ new_infected_nodes' = new_infected_nodes
          ELSE /\ recovered' = recovered
               /\ new_infected_nodes' = Append(new_infected_nodes, node)
    /\ NextNode
    /\ UNCHANGED <<transmitted, spontaneous>>
    /\ Frame

\* mutant of Task1Healthy: the branch commented out at main_task1.py 72-73
\* taken instead (a healthy node is appended with probability beta)
Task1HealthySpontaneous ==
    /\ variant = "task1"
    /\ InLoop /\ j = 0
    /\ ~IsInfected(node, sim_infected_nodes)
    /\ \E r \in Draws :
          IF Transmits(r, beta)
          THEN /\ new_infected_nodes' = Append(new_infected_nodes, node)
               /\ NextNode
          ELSE /\ new_infected_nodes' = new_infected_nodes
               /\ AfterNeighbor(0)
    /\ UNCHANGED <<recovered, transmitted, spontaneous>>
    /\ Frame

\* main_task1.py 62-64: the node is healthy; its neighbours are visited
Task1Healthy ==
    /\ variant = "task1"
    /\ InLoop /\ j = 0
    /\ ~IsInfected(node, sim_infected_nodes)
    /\ AfterNeighbor(0)
    /\ UNCHANGED <<new_infected_nodes, recovered, transmitted, spontaneous>>
    /\ Frame

\* main_task1.py 66-68: an infected neighbour infects the node with
\* probability beta, and the inner loop is left (break)
Task1Transmission ==
    /\ variant = "task1"
    /\ InLoop /\ j > 0
    /\ InfectedNeighbor(neighbor, sim_infected_nodes)
    /\ \E r \in Draws :
          IF Transmits(r, beta)
          THEN /\ new_infected_nodes' = Append(new_infected_nodes, node)
               /\ transmitted' = transmitted \cup {<<neighbor, node>>}
               /\ NextNode
          ELSE /\ UNCHANGED <<new_infected_nodes, transmitted>>
               /\ AfterNeighbor(j)
    /\ UNCHANGED <<recovered, spontaneous>>
    /\ Frame

\* main_task1.py 66: `neighbor in infected_nodes` is false, no draw is made
Task1NeighborHealthy ==
    /\ variant = "task1"
    /\ InLoop /\ j > 0
    /\ ~InfectedNeighbor(neighbor, sim_infected_nodes)
    /\ AfterNeighbor(j)
    /\ UNCHANGED <<new_infected_nodes, recovered, transmitted, spontaneous>>
    /\ Frame

\* the outer loop is over: update_status is about to return (main.py 73,
\* main_task1.py 77)
AtReturn == pc = "update_status" /\ i > Len(G.nodes)

\* return new_infected_nodes, len(new_infected_nodes) / len(G); and in
\* simulate_spread: infected_nodes, p = ...; proportion_infected.append(p)
UpdateStatusReturn ==
    /\ AtReturn
    /\ run # "preliminary"
    /\ sim_infected_nodes' = new_infected_nodes
    /\ proportion_infected' = Append(proportion_infected, Proportion(new_infected_nodes, G))
    /\ t' = t + 1
    /\ pc' = "simulate_spread"
    /\ UNCHANGED <<variant, G_type, G, p0, beta, gamma, T, infected_nodes,
                   new_infected_nodes, i, j, max_eigen, verdict,
                   recovered, transmitted, spontaneous>>
    /\ UNCHANGED MainVars

(***************************************************************************)
(* simulate_spread after the loop: the eigenvector centrality of G.  The   *)
(* scores come from networkx; the model lets max_eigen be any positive     *)
(* rational a/b with a, b \in 1..MaxEigen.                                 *)
(***************************************************************************)
EigenValues == (1..MaxEigen) \X (1..MaxEigen)

SimulateSpreadReturn ==
    /\ pc = "simulate_spread"
    /\ ~LoopRuns(t, T)
    /\ max_eigen' \in EigenValues
    /\ pc' = "check_threshold"
    /\ UNCHANGED <<variant, G_type, G, p0, beta, gamma, T, infected_nodes,
                   sim_infected_nodes, new_infected_nodes, i, j, t, proportion_infected,
                   verdict, recovered, transmitted, spontaneous>>
    /\ UNCHANGED MainVars

(***************************************************************************)
(* check_threshold(beta, gamma, max_eigen).                                *)
(***************************************************************************)
\* beta / gamma and 1 / max_eigen
beta_over_gamma(b, g) == RatDiv(<<b, Grain>>, <<g, Grain>>)

threshold(e) == RatDiv(RatOne, e)

\* main.py 159:       if beta_over_gamma > threshold
\* main_task1.py 155: if beta_over_gamma > 1 / threshold
EpidemicTest(v, b, g, e) ==
    IF v = "main"
    THEN RatGT(beta_over_gamma(b, g), threshold(e))
    ELSE RatGT(beta_over_gamma(b, g), RatDiv(RatOne, threshold(e)))

check_threshold(v, b, g, e) ==
    IF g = 0 THEN "ZeroDivisionError"
    ELSE IF EpidemicTest(v, b, g, e) THEN "Epidemic occurs"
    ELSE "No epidemic occurs"

CheckThreshold ==
    /\ pc = "check_threshold"
    /\ verdict' = check_threshold(variant, beta, gamma, max_eigen)
    /\ pc' = "done"
    /\ UNCHANGED <<variant, G_type, G, p0, beta, gamma, T, infected_nodes,
                   sim_infected_nodes, new_infected_nodes, i, j, t, proportion_infected,
                   max_eigen, recovered, transmitted, spontaneous>>
    /\ UNCHANGED MainVars

Next ==
    \/ SetInitialInfected
    \/ SetInitialInfectedReturn
    \/ SimulateSpreadStep
    \/ MainRecovery
    \/ MainTransmission
    \/ MainNeighborInfected
    \/ MainSpontaneous
    \/ Task1Recovery
    \/ Task1Healthy
    \/ Task1Transmission
    \/ Task1NeighborHealthy
    \/ UpdateStatusReturn
    \/ SimulateSpreadReturn
    \/ CheckThreshold

Spec == Init /\ [][Next]_vars

(***************************************************************************)
(* main() as the two files write it.  src/main.py runs the batch loop over *)
(* graph_types with two simulate_spread calls per topology; src/           *)
(* main_task1.py builds the lattice, calls update_status once and then     *)
(* simulate_spread.  Every probability main() sets lies strictly between   *)
(* 0 and 1, so each random trial can go both ways; the model keeps of the  *)
(* values that they are interior and how they are ordered.                 *)
(***************************************************************************)
\* main.py 210: graph_types, in the order of `for graph_type in graph_types`
graph_types_in_order == <<"random", "complete", "star", "lattice">>

\* main.py 205-207, 226-233: p0 = 0.01, T = 10, n = 1000, beta_above >
\* beta_below and gamma_above < gamma_below
MainParameters ==
    [p0 |-> 1, T |-> MaxT, n |-> NumNodes,
     beta_above |-> Grain - 1, gamma_above |-> 1,
     beta_below |-> 1, gamma_below |-> Grain - 1]

\* main_task1.py 165-169: p0 = 0.01, beta = 0.01, gamma = 0.1, T = 20,
\* n = 1000; n is large enough for round(math.sqrt(n)) >= 2, a lattice with
\* edges
Task1Parameters ==
    [p0 |-> 1, beta |-> 1, gamma |-> Grain - 1, T |-> MaxT, n |-> NumNodes + 2]

\* the locals of a call that has not assigned them yet
NoCentrality ==
    /\ eigen_centrality' = <<>>
    /\ leading_node' = -1
    /\ max_eigen' = <<0, 1>>

MainInit ==
    /\ variant \in {"main", "task1"}
    /\ \/ /\ variant = "main"
          /\ graph_index = 1
          /\ G_type = graph_types_in_order[1]
          /\ run = "above"
          /\ p0 = MainParameters.p0
          /\ beta = MainParameters.beta_above
          /\ gamma = MainParameters.gamma_above
          /\ T = MainParameters.T
       \/ /\ variant = "task1"
          /\ graph_index = 0
          /\ G_type = "lattice"
          /\ run = "preliminary"
          /\ p0 = Task1Parameters.p0
          /\ beta = Task1Parameters.beta
          /\ gamma = Task1Parameters.gamma
          /\ T = Task1Parameters.T
    /\ G \in BuildGraphs(variant, G_type,
                          IF variant = "main" THEN MainParameters.n ELSE Task1Parameters.n)
    /\ pc = "set_initial_infected"
    /\ infected_nodes = <<>>
    /\ sim_infected_nodes = <<>>
    /\ new_infected_nodes = <<>>
    /\ i = 1
    /\ j = 0
    /\ t = 0
    /\ proportion_infected = <<>>
    /\ max_eigen = <<0, 1>>
    /\ verdict = "none"
    /\ recovered = {}
    /\ transmitted = {}
    /\ spontaneous = {}
    /\ eigen_centrality = <<>>
    /\ leading_node = -1
    /\ max_eigen_above = <<0, 1>>
    /\ leading_node_above = -1
    /\ exception = "none"
    /\ checked = {}
    /\ reported = <<>>

\* main_task1.py 186: update_status(G, infected_nodes, beta, gamma), called
\* with main()'s list
Task1PreliminaryCall ==
    /\ pc = "set_initial_infected"
    /\ i > Len(G.nodes)
    /\ run = "preliminary"
    /\ pc' = "update_status"
    /\ sim_infected_nodes' = infected_nodes
    /\ new_infected_nodes' = <<>>
    /\ i' = 1
    /\ j' = 0
    /\ recovered' = {}
    /\ transmitted' = {}
    /\ spontaneous' = {}
    /\ UNCHANGED <<variant, G_type, G, p0, beta, gamma, T, infected_nodes,
                   t, proportion_infected, max_eigen, verdict>>
    /\ UNCHANGED MainVars

\* main_task1.py 186, 189: the value of the preliminary call is dropped and
\* simulate_spread(G, infected_nodes, beta, gamma, T) is called
Task1PreliminaryReturn ==
    /\ AtReturn
    /\ run = "preliminary"
    /\ run' = "only"
    /\ pc' = "simulate_spread"
    /\ sim_infected_nodes' = infected_nodes
    /\ new_infected_nodes' = <<>>
    /\ proportion_infected' = <<>>
    /\ t' = 0
    /\ UNCHANGED <<variant, G_type, G, p0, beta, gamma, T, infected_nodes,
                   i, j, max_eigen, verdict, recovered, transmitted, spontaneous,
                   graph_index, eigen_centrality, leading_node, max_eigen_above,
                   leading_node_above, exception, checked, reported>>

(***************************************************************************)
(* nx.eigenvector_centrality(G): the principal eigenvector of the          *)
(* adjacency matrix, scaled to Euclidean norm 1, as a dict in G.nodes()    *)
(* order.  The scores are kept by their squares, which are rational: on    *)
(* the graphs built here (regular graphs, stars, one edge beside isolated  *)
(* nodes) the square of a node's score is its degree over the sum of the   *)
(* degrees, and 1/len(G) on a graph without edges.                         *)
(***************************************************************************)
Degree(g, x) == Len(g.adj[x])

RECURSIVE SumDegrees(_, _)
SumDegrees(g, k) ==
    IF k = 0 THEN 0 ELSE Degree(g, g.nodes[k]) + SumDegrees(g, k - 1)

eigenvector_centrality(g) ==
    LET total == SumDegrees(g, Len(g.nodes))
    IN [x \in Range(g.nodes) |->
           IF total = 0 THEN <<1, Len(g.nodes)>> ELSE <<Degree(g, x), total>>]

\* max(eigen_centrality.values())
MaxValue(c, order) ==
    LET k == CHOOSE a \in 1..Len(order) :
                 \A b \in 1..Len(order) : ~RatGT(c[order[b]], c[order[a]])
    IN c[order[k]]

\* the last key holding the largest value
LastMaxKey(c, order) ==
    LET k == CHOOSE a \in 1..Len(order) :
                 /\ \A b \in 1..Len(order) : ~RatGT(c[order[b]], c[order[a]])
                 /\ \A b \in (a + 1)..Len(order) : RatGT(c[order[a]], c[order[b]])
    IN order[k]

\* max(eigen_centrality, key=eigen_centrality.get): the first key, in the
\* dict's order, holding the largest value
MaxKey(c, order) ==
    LET k == CHOOSE a \in 1..Len(order) :
                 /\ \A b \in 1..Len(order) : ~RatGT(c[order[b]], c[order[a]])
                 /\ \A b \in 1..(a - 1) : RatGT(c[order[a]], c[order[b]])
    IN order[k]

\* the loop of simulate_spread is over
AfterLoop == pc = "simulate_spread" /\ ~LoopRuns(t, T)

\* main.py 116-128, main_task1.py 120-128: the centrality converges and
\* simulate_spread returns proportion_infected, max_eigen, leading_node
SimulateSpreadCentrality ==
    /\ AfterLoop
    /\ run # "none"
    /\ eigen_centrality' = eigenvector_centrality(G)
    /\ max_eigen' = MaxValue(eigenvector_centrality(G), G.nodes)
    /\ leading_node' = MaxKey(eigenvector_centrality(G), G.nodes)
    /\ pc' = "returned"
    /\ UNCHANGED <<variant, G_type, G, p0, beta, gamma, T, infected_nodes,
                   sim_infected_nodes, new_infected_nodes, i, j, t, proportion_infected,
                   verdict, recovered, transmitted, spontaneous,
                   graph_index, run, max_eigen_above, leading_node_above,
                   exception, checked, reported>>

\* the power iteration goes on from an estimate that has not converged
\* instead of raising
SimulateSpreadUnconverged ==
    /\ AfterLoop
    /\ run # "none"
    /\ exception' = "PowerIterationFailedConvergence"
    /\ eigen_centrality' = eigenvector_centrality(G)
    /\ max_eigen' = MaxValue(eigenvector_centrality(G), G.nodes)
    /\ leading_node' = MaxKey(eigenvector_centrality(G), G.nodes)
    /\ pc' = "returned"
    /\ UNCHANGED <<variant, G_type, G, p0, beta, gamma, T, infected_nodes,
                   sim_infected_nodes, new_infected_nodes, i, j, t, proportion_infected,
                   verdict, recovered, transmitted, spontaneous,
                   graph_index, run, max_eigen_above, leading_node_above,
                   checked, reported>>

\* main.py 116-120, main_task1.py 120: nx.eigenvector_centrality exhausts
\* max_iter and raises PowerIterationFailedConvergence; neither
\* simulate_spread nor main() catches it, so the program ends here
SimulateSpreadRaise ==
    /\ AfterLoop
    /\ run # "none"
    /\ exception' = "PowerIterationFailedConvergence"
    /\ pc' = "crashed"
    /\ UNCHANGED <<variant, G_type, G, p0, beta, gamma, T, infected_nodes,
                   sim_infected_nodes, new_infected_nodes, i, j, t, proportion_infected,
                   max_eigen, verdict, recovered, transmitted, spontaneous,
                   graph_index, run, eigen_centrality, leading_node, max_eigen_above,
                   leading_node_above, checked, reported>>

\* check_threshold(beta, gamma, max_eigen) when max_eigen is kept by its
\* square e2: beta / gamma and 1 / max_eigen are positive, so they compare
\* as their squares do
Square(x) == <<x[1] * x[1], x[2] * x[2]>>

EpidemicTestOnSquare(v, b, g, e2) ==
    IF v = "main"
    THEN RatGT(Square(beta_over_gamma(b, g)), threshold(e2))
    ELSE RatGT(Square(beta_over_gamma(b, g)), RatDiv(RatOne, threshold(e2)))

check_threshold_on_square(v, b, g, e2) ==
    IF g = 0 THEN "ZeroDivisionError"
    ELSE IF EpidemicTestOnSquare(v, b, g, e2) THEN "Epidemic occurs"
    ELSE "No epidemic occurs"

\* main.py 239-246: the first call has returned; its results are bound to
\* ..._above and simulate_spread is called again with the same G and
\* infected_nodes and with beta_below, gamma_below
MainSecondCall ==
    /\ pc = "returned"
    /\ run = "above"
    /\ max_eigen_above' = max_eigen
    /\ leading_node_above' = leading_node
    /\ run' = "below"
    /\ beta' = MainParameters.beta_below
    /\ gamma' = MainParameters.gamma_below
    /\ sim_infected_nodes' = infected_nodes
    /\ new_infected_nodes' = <<>>
    /\ proportion_infected' = <<>>
    /\ t' = 0
    /\ NoCentrality
    /\ pc' = "simulate_spread"
    /\ UNCHANGED <<variant, G_type, G, p0, T, infected_nodes, i, j, verdict,
                   recovered, transmitted, spontaneous,
                   graph_index, exception, checked, reported>>

\* main.py 249-251: the prints of the topology and
\* check_threshold(beta_above, gamma_above, max_eigen_above)
MainCheckAbove ==
    /\ pc = "returned"
    /\ run = "below"
    /\ reported' = Append(reported, G_type)
    /\ verdict' = check_threshold_on_square(variant, MainParameters.beta_above,
                                            MainParameters.gamma_above, max_eigen_above)
    /\ checked' = checked \cup {"above"}
    /\ pc' = "check_threshold"
    /\ UNCHANGED <<variant, G_type, G, p0, beta, gamma, T, infected_nodes,
                   sim_infected_nodes, new_infected_nodes, i, j, t, proportion_infected,
                   max_eigen, recovered, transmitted, spontaneous,
                   graph_index, run, eigen_centrality, leading_node, max_eigen_above,
                   leading_node_above, exception>>

\* main.py 252: check_threshold(beta_below, gamma_below, max_eigen_below)
MainCheckBelow ==
    /\ pc = "check_threshold"
    /\ run = "below"
    /\ verdict' = check_threshold_on_square(variant, beta, gamma, max_eigen)
    /\ checked' = checked \cup {"below"}
    /\ pc' = "end_of_body"
    /\ UNCHANGED <<variant, G_type, G, p0, beta, gamma, T, infected_nodes,
                   sim_infected_nodes, new_infected_nodes, i, j, t, proportion_infected,
                   max_eigen, recovered, transmitted, spontaneous,
                   graph_index, run, eigen_centrality, leading_node, max_eigen_above,
                   leading_node_above, exception, reported>>

\* main.py 212-236: the next graph_type; G and the parameters are set again
\* and set_initial_infected is called.  The values the previous topology
\* left in the other names are never read again and are dropped.
MainNextTopology ==
    /\ pc = "end_of_body"
    /\ graph_index < Len(graph_types_in_order)
    /\ graph_index' = graph_index + 1
    /\ G_type' = graph_types_in_order[graph_index + 1]
    /\ G' \in BuildGraphs(variant, graph_types_in_order[graph_index + 1], MainParameters.n)
    /\ run' = "above"
    /\ beta' = MainParameters.beta_above
    /\ gamma' = MainParameters.gamma_above
    /\ pc' = "set_initial_infected"
    /\ infected_nodes' = <<>>
    /\ sim_infected_nodes' = <<>>
    /\ new_infected_nodes' = <<>>
    /\ i' = 1
    /\ j' = 0
    /\ t' = 0
    /\ proportion_infected' = <<>>
    /\ NoCentrality
    /\ max_eigen_above' = <<0, 1>>
    /\ leading_node_above' = -1
    /\ verdict' = "none"
    /\ checked' = {}
    /\ recovered' = {}
    /\ transmitted' = {}
    /\ spontaneous' = {}
    /\ UNCHANGED <<variant, p0, T, exception, reported>>

\* main.py 212: graph_types is exhausted, main() returns
MainEnd ==
    /\ pc = "end_of_body"
    /\ graph_index = Len(graph_types_in_order)
    /\ pc' = "done"
    /\ UNCHANGED <<variant, G_type, G, p0, beta, gamma, T, infected_nodes,
                   sim_infected_nodes, new_infected_nodes, i, j, t, proportion_infected,
                   max_eigen, verdict, recovered, transmitted, spontaneous>>
    /\ UNCHANGED MainVars

\* main_task1.py 192-195: the print of the leading node and
\* check_threshold(beta, gamma, max_eigen); main() returns
Task1CheckThreshold ==
    /\ pc = "returned"
    /\ run = "only"
    /\ reported' = Append(reported, G_type)
    /\ verdict' = check_threshold_on_square(variant, beta, gamma, max_eigen)
    /\ checked' = checked \cup {"only"}
    /\ pc' = "done"
    /\ UNCHANGED <<variant, G_type, G, p0, beta, gamma, T, infected_nodes,
                   sim_infected_nodes, new_infected_nodes, i, j, t, proportion_infected,
                   max_eigen, recovered, transmitted, spontaneous,
                   graph_index, run, eigen_centrality, leading_node, max_eigen_above,
                   leading_node_above, exception>>

NextMain ==
    \/ SetInitialInfected
    \/ SetInitialInfectedReturn
    \/ Task1PreliminaryCall
    \/ Task1PreliminaryReturn
    \/ SimulateSpreadStep
    \/ MainRecovery
    \/ MainTransmission
    \/ MainNeighborInfected
    \/ MainSpontaneous
    \/ Task1Recovery
    \/ Task1Healthy
    \/ Task1Transmission
    \/ Task1NeighborHealthy
    \/ UpdateStatusReturn
    \/ SimulateSpreadCentrality
    \/ SimulateSpreadRaise
    \/ MainSecondCall
    \/ MainCheckAbove
    \/ MainCheckBelow
    \/ MainNextTopology
    \/ MainEnd
    \/ Task1CheckThreshold

SpecMain == MainInit /\ [][NextMain]_vars

(***************************************************************************)
(* Properties.                                                             *)
(***************************************************************************)
\* a rational <<num, den>>, den > 0, lies in [0, 1]
InUnitInterval(x) == 0 <= x[1] /\ x[1] <= x[2]

NoDuplicates(s) == \A a, b \in 1..Len(s) : s[a] = s[b] => a = b

\* the nodes infected at t-1, as update_status sees them
InfectedBefore == {x \in Nodes : In(x, sim_infected_nodes)}

SusceptibleBefore == Nodes \ InfectedBefore

\* C1: every value appended to the trajectory, len(new_infected_nodes)/len(G),
\* lies in [0, 1] (both files).
C1_TrajectoryInUnitInterval ==
    \A k \in 1..Len(proportion_infected) : InUnitInterval(proportion_infected[k])

\* C2: the list update_status returns holds every node at most once (both
\* files).
C2_ReturnedListHasNoDuplicates ==
    AtReturn => NoDuplicates(new_infected_nodes)

\* C3: when update_status returns, a node that was infected at t-1 and whose
\* recovery trial did not succeed is in the returned list; an infected node
\* is absent only if its recovery trial succeeded (both files).
C3_InfectedStaysUnlessRecovered ==
    AtReturn =>
        \A x \in InfectedBefore :
            /\ x \notin recovered => In(x, new_infected_nodes)
            /\ ~In(x, new_infected_nodes) => x \in recovered

\* some neighbour of x that was infected at t-1 made a successful
\* transmission trial towards x in this call
InfectedByNeighbor(x) ==
    \E u \in Range(Neighbors(x)) :
        In(u, sim_infected_nodes) /\ <<u, x>> \in transmitted

\* C4 as claimed: a node susceptible at t-1 is in the returned list iff an
\* infected neighbour's transmission trial towards it succeeded (both files).
C4_SusceptibleInfectedOnlyByNeighbor ==
    AtReturn =>
        \A x \in SusceptibleBefore :
            In(x, new_infected_nodes) <=> InfectedByNeighbor(x)

\* C4 amended: a node susceptible at t-1 is in the returned list iff an
\* infected neighbour's transmission trial towards it succeeded or, in
\* main.py only, its own trial of line 69 succeeded.
C4_SusceptibleInfectedByNeighborOrOwnTrial ==
    AtReturn =>
        \A x \in SusceptibleBefore :
            In(x, new_infected_nodes) <=>
                (InfectedByNeighbor(x) \/ (variant = "main" /\ x \in spontaneous))

\* C4 witness: main_task1.py returns with beta = 1, one susceptible node
\* infected by a neighbour and another, which has neighbours but no infected
\* one, left out.
C4_Witness ==
    /\ AtReturn
    /\ variant = "task1"
    /\ beta = Grain
    /\ \E x, y \in SusceptibleBefore :
          /\ In(x, new_infected_nodes)
          /\ InfectedByNeighbor(x)
          /\ ~In(y, new_infected_nodes)
          /\ Neighbors(y) # <<>>
          /\ Range(Neighbors(y)) \cap InfectedBefore = {}

\* once an entry of the trajectory is 0 the next one is 0, and a call of
\* update_status after the first step that is given the empty state returns
\* the empty state
EmptyStays ==
    /\ (AtReturn /\ t >= 1 /\ sim_infected_nodes = <<>>) => new_infected_nodes = <<>>
    /\ \A k \in 1..(Len(proportion_infected) - 1) :
          proportion_infected[k][1] = 0 => proportion_infected[k + 1][1] = 0

\* C5 as claimed: with gamma > 0, once the infection state is empty after a
\* step it is empty after every later step and the later trajectory entries
\* are 0 (both files).
C5_EmptyIsAbsorbing == gamma > 0 => EmptyStays

\* C5 amended: the same in main_task1.py, and in main.py when beta = 0.
C5_EmptyIsAbsorbingWithoutOwnTrial ==
    (gamma > 0 /\ (variant = "task1" \/ beta = 0)) => EmptyStays

\* C5 witness: in main_task1.py with beta > 0 and gamma > 0, on a graph with
\* an edge, a non-empty initial state died out at step 1 and step 2 left it
\* empty.
C5_Witness ==
    /\ variant = "task1"
    /\ gamma > 0
    /\ beta > 0
    /\ infected_nodes # <<>>
    /\ \E x \in Nodes : Neighbors(x) # <<>>
    /\ Len(proportion_infected) = 2
    /\ proportion_infected[1][1] = 0
    /\ proportion_infected[2][1] = 0
    /\ sim_infected_nodes = <<>>

\* C6: check_threshold reports 'Epidemic occurs' iff beta/gamma > 1/max_eigen,
\* and 'No epidemic occurs' at equality (both files; gamma > 0).  With
\* max_eigen = a/b the comparison is beta * a > gamma * b.
C6_ThresholdVerdict ==
    (pc = "done" /\ gamma > 0) =>
        /\ verdict = "Epidemic occurs" <=> beta * max_eigen[1] > gamma * max_eigen[2]
        /\ beta * max_eigen[1] = gamma * max_eigen[2] => verdict = "No epidemic occurs"

\* C7: simulate_spread with T > 0 returns exactly T entries, also when the
\* infection dies out early; its first call of update_status is given the
\* caller's initial state, and every change of the threaded state or of the
\* trajectory is the return of one call: the state becomes the list the call
\* built and the entry appended is that list's length over len(G).
C7_TrajectoryHasTEntries ==
    /\ []((pc \in {"check_threshold", "done"} /\ T > 0) => Len(proportion_infected) = T)
    /\ []((pc = "simulate_spread" /\ t = 0) => sim_infected_nodes = infected_nodes)
    /\ [][(/\ pc # "set_initial_infected"
           /\ \/ proportion_infected' # proportion_infected
              \/ sim_infected_nodes' # sim_infected_nodes)
          => /\ AtReturn
             /\ sim_infected_nodes' = new_infected_nodes
             /\ proportion_infected' =
                   Append(proportion_infected, <<Len(new_infected_nodes), Len(G.nodes)>>)]_vars

\* C7 witness: a run with T = 2 from a non-empty state that was empty after
\* step 1 has finished with 2 entries.
C7_Witness ==
    /\ pc = "done"
    /\ T = 2
    /\ infected_nodes # <<>>
    /\ Len(proportion_infected) = 2
    /\ proportion_infected[1][1] = 0

\* C8: set_initial_infected returns the empty list for p0 = 0 and every node
\* of the graph, once, in G.nodes() order, for p0 = 1.
C8_InitialStateAtExtremes ==
    pc # "set_initial_infected" =>
        /\ p0 = 0 => infected_nodes = <<>>
        /\ p0 = Grain => infected_nodes = G.nodes

\* C8 witness: p0 = 1 on a graph of at least two nodes, all of them returned.
C8_Witness ==
    /\ pc = "simulate_spread"
    /\ p0 = Grain
    /\ Len(G.nodes) >= 2
    /\ infected_nodes = G.nodes

\* C9: with beta = 0 and gamma = 1 every call of update_status returns the
\* empty list and the fraction 0, so a run with T = 1 ends with the
\* trajectory [0.0] (both files).
C9_NoTransmissionFullRecovery ==
    (beta = 0 /\ gamma = Grain) =>
        /\ AtReturn => new_infected_nodes = <<>>
        /\ \A k \in 1..Len(proportion_infected) :
              proportion_infected[k] = <<0, Len(G.nodes)>>
        /\ (pc = "done" /\ T = 1) => proportion_infected = << <<0, Len(G.nodes)>> >>

\* C9 witness: the star graph, every node infected, beta = 0, gamma = 1,
\* T = 1: the run is over with the trajectory [0.0].
C9_Witness ==
    /\ pc = "done"
    /\ G_type = "star"
    /\ beta = 0
    /\ gamma = Grain
    /\ T = 1
    /\ infected_nodes = G.nodes
    /\ proportion_infected = << <<0, Len(G.nodes)>> >>

\* the configurations the specification calls InvalidParameter
InvalidParameter ==
    \/ gamma = 0
    \/ T <= 0
    \/ \E x \in {p0, beta, gamma} : x < 0 \/ x > Grain

\* C10: a run with an invalid parameter (gamma = 0, T <= 0, or a probability
\* outside [0, 1]) is rejected before any simulation step: update_status is
\* never called and no trajectory entry is produced.
C10_InvalidParameterRejected ==
    InvalidParameter => (pc # "update_status" /\ proportion_infected = <<>>)

\* C16: in one call of update_status a node whose recovery trial succeeds
\* transmits to nobody, and a susceptible node all of whose infected
\* neighbours recover in this call is not in the returned list (both files).
C16_RecoveredDoesNotTransmit ==
    AtReturn =>
        /\ \A e \in transmitted : e[1] \notin recovered
        /\ \A x \in SusceptibleBefore :
              LET sources == Range(Neighbors(x)) \cap InfectedBefore
              IN (sources # {} /\ sources \subseteq recovered)
                     => ~In(x, new_infected_nodes)

\* C17: the infection state holds only nodes of the graph: the initial state,
\* the state threaded through simulate_spread and the list update_status
\* builds (both files).
C17_StateWithinGraph ==
    /\ Range(infected_nodes) \subseteq Nodes
    /\ Range(sim_infected_nodes) \subseteq Nodes
    /\ Range(new_infected_nodes) \subseteq Nodes

\* C17 witness: after two steps from a non-empty initial state the state is
\* not empty (and within the graph).
C17_Witness ==
    /\ pc = "simulate_spread"
    /\ t = 2
    /\ infected_nodes # <<>>
    /\ sim_infected_nodes # <<>>
    /\ Range(sim_infected_nodes) \subseteq Nodes

(***************************************************************************)
(* Properties of main().                                                   *)
(***************************************************************************)
\* C11: in the batch loop of src/main.py a failure while one topology is
\* processed aborts only that topology: when main() has ended, every
\* topology after the failed one in graph_types has been simulated and
\* reported.
C11_FailureAbortsOnlyItsTopology ==
    (variant = "main" /\ pc \in {"done", "crashed"} /\ exception # "none") =>
        \A k \in (graph_index + 1)..Len(graph_types_in_order) :
            In(graph_types_in_order[k], reported)

\* C12: when the centrality computation ends without converging,
\* simulate_spread returns no max_eigen, check_threshold is not called for
\* that run and no verdict is printed; nothing runs after the failure.
C12_NoVerdictFromUnconvergedEstimate ==
    /\ [](exception = "PowerIterationFailedConvergence" =>
             /\ pc = "crashed"
             /\ max_eigen = <<0, 1>>
             /\ eigen_centrality = <<>>
             /\ run \notin checked
             /\ verdict = "none")
    /\ [][exception = "none"]_vars

C12_Witness ==
    /\ exception = "PowerIterationFailedConvergence"
    /\ run = "below"
    /\ max_eigen_above # <<0, 1>>
    /\ reported # <<>>

\* C14: on a complete graph of n nodes the max_eigen returned by
\* simulate_spread is n - 1 (max_eigen holds the square of the score).
C14_CompleteGraphMaxEigen ==
    (G_type = "complete" /\ pc = "returned") =>
        max_eigen[1] = (Len(G.nodes) - 1) * (Len(G.nodes) - 1) * max_eigen[2]

\* C15: within a call of update_status every membership test is made
\* against the list passed in (every recovery and transmission comes from a
\* node infected at t-1, every transmission and own trial hits a node
\* susceptible at t-1); the passed list does not change during the call, nor
\* does main()'s infected_nodes once set_initial_infected has returned; and
\* every simulate_spread call starts from main()'s infected_nodes.
C15_PassedListReadOnly ==
    /\ [](AtReturn =>
             /\ recovered \subseteq InfectedBefore
             /\ spontaneous \subseteq SusceptibleBefore
             /\ \A e \in transmitted :
                   e[1] \in InfectedBefore /\ e[2] \in SusceptibleBefore)
    /\ []((pc = "simulate_spread" /\ t = 0) => sim_infected_nodes = infected_nodes)
    /\ []((pc = "update_status" /\ run = "preliminary") =>
             sim_infected_nodes = infected_nodes)
    /\ [][(pc = "update_status" /\ pc' = "update_status") =>
             sim_infected_nodes' = sim_infected_nodes]_vars
    /\ [][(pc # "set_initial_infected" /\ pc' # "set_initial_infected") =>
             infected_nodes' = infected_nodes]_vars

\* the second simulation of a topology has run a step that changed its own
\* state, and main()'s list is what set_initial_infected returned
C15_Witness ==
    /\ run = "below"
    /\ AtReturn
    /\ t = 1
    /\ infected_nodes # <<>>
    /\ sim_infected_nodes # infected_nodes
    /\ new_infected_nodes # sim_infected_nodes
    /\ recovered # {}
    /\ transmitted # {}

\* C18: simulate_spread computes the centrality after all T steps, from the
\* graph alone; the score of leading_node is max_eigen, no score is larger,
\* every node before leading_node in the dict's order scores less, and the
\* two calls of one topology return the same max_eigen and leading_node.
C18_CentralityAfterLoopOnGraphAlone ==
    /\ [](pc = "returned" =>
             /\ t = T
             /\ Len(proportion_infected) = T
             /\ eigen_centrality = eigenvector_centrality(G)
             /\ eigen_centrality[leading_node] = max_eigen
             /\ \A x \in Nodes : ~RatGT(eigen_centrality[x], max_eigen)
             /\ \A k \in 1..Len(G.nodes) :
                   G.nodes[k] = leading_node =>
                       \A m \in 1..(k - 1) :
                           RatGT(max_eigen, eigen_centrality[G.nodes[m]])
             /\ run = "below" =>
                   max_eigen = max_eigen_above /\ leading_node = leading_node_above)
    /\ [][eigen_centrality' # eigen_centrality /\ eigen_centrality' # <<>> =>
             AfterLoop]_vars

\* several nodes share the largest score and the two calls went through
\* different states
C18_Witness ==
    /\ pc = "returned"
    /\ run = "below"
    /\ sim_infected_nodes # infected_nodes
    /\ \E x \in Nodes : x # leading_node /\ eigen_centrality[x] = max_eigen
    /\ leading_node = G.nodes[1]

====
